---- MODULE Spec2Model ----
(***************************************************************************)
(* TADI - type annotation dependency injection (src/tadi.py).              *)
(*                                                                         *)
(* The state is one Injector: its name index `interfaces`, its two binding *)
(* tables `scoped_services` and `singleton_services`, the Python heap      *)
(* (the identity the next constructed object gets), the outcome of the     *)
(* last call made on the injector, and the last closure resolve_callable   *)
(* returned.  Every public method is one action; resolve is the recursive  *)
(* operator the method is.                                                 *)
(***************************************************************************)
EXTENDS Integers, Sequences, FiniteSets, TLC

VARIABLES interfaces, scoped_services, singleton_services, heap, last, wrapped

vars == <<interfaces, scoped_services, singleton_services, heap, last, wrapped>>

(***************************************************************************)
(* Bounds of the exploration.                                              *)
(***************************************************************************)
\* successful registrations on the one injector
MaxBindings == 4
\* resolve and resolve_callable are called while the next object identity is
\* at most this
MaxHeap == 3

(***************************************************************************)
(* The classes the caller has at hand (the fixtures of src/test.py,        *)
(* widened so that a diamond, cycles of several lengths, a missing         *)
(* binding behind a cycle, two classes sharing a __name__ and a class      *)
(* object registered as a singleton all occur).                            *)
(***************************************************************************)
Interfaces == {"A", "B", "C", "D", "A_", "type"}

ImplClasses == {"AImpl", "ACyc", "BImpl", "BCyc", "CImpl", "CCyc", "DImpl", "DFac"}

\* cls.__name__ : "A_" is a second class that is also called A
Name(c) == IF c = "A_" THEN "A" ELSE c

\* the base class of every implementation class
Base(c) ==
    CASE c \in {"AImpl", "ACyc"} -> "A"
      [] c \in {"BImpl", "BCyc"} -> "B"
      [] c \in {"CImpl", "CCyc"} -> "C"
      [] c \in {"DImpl", "DFac"} -> "D"
      [] OTHER -> "object"

\* issubclass(c, i)
issubclass(c, i) == c = i \/ Base(c) = i

\* an annotation is a forward-declared name, a live type handle, or None
Str(n) == [kind |-> "str", v |-> n]
Typ(c) == [kind |-> "type", v |-> c]
None == [kind |-> "none", v |-> ""]
Param(p, a) == [p |-> p, a |-> a]

\* inspect.getfullargspec(cls.__init__).annotations, in dict order
Annotations(c) ==
    CASE c = "AImpl" -> <<Param("b", Str("B")), Param("c", Str("C")), Param("return", None)>>
      [] c = "ACyc"  -> <<Param("cyclic_service", Str("A")), Param("return", None)>>
      [] c = "BImpl" -> <<Param("return", None), Param("d", Str("D"))>>
      [] c = "BCyc"  -> <<Param("a", Typ("A")), Param("return", None)>>
      [] c = "CImpl" -> <<Param("d", Typ("D")), Param("return", None)>>
      [] c = "CCyc"  -> <<Param("a", Str("A")), Param("return", None)>>
      [] c = "DFac"  -> <<Param("factory", Typ("type")), Param("return", None)>>
      [] OTHER -> << >>

\* the functions handed to resolve_callable, and their annotations
Functions == {"inner", "outer", "other"}

FnAnnotations(f) ==
    CASE f = "inner" -> <<Param("service", Typ("A")), Param("return", None)>>
      [] f = "outer" -> <<Param("b", Str("B")), Param("d", Typ("D")), Param("return", None)>>
      [] f = "other" -> <<Param("a", Typ("A_")), Param("factory", Typ("type"))>>
      [] OTHER -> << >>

\* callable(fn)
callable(f) == f \in Functions

(***************************************************************************)
(* Python values: a class object or an instance with an identity and the   *)
(* keyword arguments its constructor stored.                               *)
(***************************************************************************)
NoVal == [kind |-> "none", cls |-> "", id |-> 0, kw |-> << >>]
ClassVal(c) == [kind |-> "class", cls |-> c, id |-> 0, kw |-> << >>]
Obj(c, i, kw) == [kind |-> "obj", cls |-> c, id |-> i, kw |-> kw]
Arg(p, v) == [p |-> p, v |-> v]

\* isinstance(v, type)
IsType(v) == v.kind = "class"

\* isinstance(v, i)
isinstance(v, i) ==
    IF IsType(v) THEN i = "type" ELSE v.kind = "obj" /\ issubclass(v.cls, i)

\* instances the caller built itself, before registering them
PreD == Obj("DImpl", -1, << >>)
PreB == Obj("BImpl", -2, <<Arg("d", PreD)>>)
PreA == Obj("A_", -3, << >>)

SingletonValues == {PreD, PreB, PreA, ClassVal("DImpl"), ClassVal("ACyc")}

(***************************************************************************)
(* Outcomes: a returned value or a raised exception with its arguments.    *)
(***************************************************************************)
Ret(v) == [kind |-> "ok", val |-> v, name |-> "", impl |-> "", chain |-> << >>]
Raise(k, n, i, s) == [kind |-> k, val |-> NoVal, name |-> n, impl |-> i, chain |-> s]

Range(s) == {s[i] : i \in 1..Len(s)}

Injector(i, sc, si) ==
    [interfaces |-> i, scoped_services |-> sc, singleton_services |-> si]

Binding(k, v) == [k |-> k, v |-> v]

\* the first entry of a table whose key is k (0: none)
Find(table, k) ==
    IF \E i \in 1..Len(table) : table[i].k = k
    THEN CHOOSE i \in 1..Len(table) :
             table[i].k = k /\ \A j \in 1..(i - 1) : table[j].k # k
    ELSE 0

(***************************************************************************)
(* Injector.implementation: the scoped table is searched first, then the   *)
(* singleton table.                                                        *)
(***************************************************************************)
\* a lookup that forgets the singleton table
implementation_scoped_only(inj, interface) ==
    LET s == Find(inj.scoped_services, interface)
    IN  IF s # 0 THEN Ret(inj.scoped_services[s].v)
        ELSE Raise("UnimplementedError", Name(interface), "", << >>)

implementation(inj, interface) ==
    LET s == Find(inj.scoped_services, interface)
        g == Find(inj.singleton_services, interface)
    IN  IF s # 0 THEN Ret(inj.scoped_services[s].v)
        ELSE IF g # 0 THEN Ret(inj.singleton_services[g].v)
        ELSE Raise("UnimplementedError", Name(interface), "", << >>)

(***************************************************************************)
(* Injector.interface: a str or a type is turned into a name and looked up *)
(* in the name index.                                                      *)
(***************************************************************************)
interface(inj, interface_id) ==
    IF interface_id.kind \notin {"str", "type"}
    THEN Raise("TypeError", "", "", << >>)
    ELSE LET n == IF interface_id.kind = "type" THEN Name(interface_id.v)
                  ELSE interface_id.v
         IN  IF n \in DOMAIN inj.interfaces
             THEN Ret(ClassVal(inj.interfaces[n]))
             ELSE Raise("UnimplementedError", n, "", << >>)

(***************************************************************************)
(* Injector._register_interface, register_scoped, register_singleton.      *)
(* Each returns the injector after the call and the call's outcome.        *)
(***************************************************************************)
Done(inj, out) == [inj |-> inj, out |-> out]

\* a registration that overwrites the index entry instead of refusing
_register_interface_overwrite(inj, i) ==
    Done([inj EXCEPT !.interfaces = (Name(i) :> i) @@ inj.interfaces], Ret(NoVal))

_register_interface(inj, i) ==
    IF Name(i) \in DOMAIN inj.interfaces
    THEN Done(inj, Raise("ImplementedError", Name(i), "", << >>))
    ELSE Done([inj EXCEPT !.interfaces = (Name(i) :> i) @@ inj.interfaces],
              Ret(NoVal))

\* a registration that enters the interface in the index before it checks
\* the implementation
register_scoped_late_check(inj, i, impl) ==
    LET r == _register_interface(inj, i)
    IN  IF r.out.kind # "ok" THEN r
        ELSE IF ~ issubclass(impl, i)
        THEN Done(r.inj, Raise("ImplementationInterfaceMismatchError", Name(i), Name(impl), << >>))
        ELSE Done([r.inj EXCEPT !.scoped_services =
                       Append(r.inj.scoped_services, Binding(i, ClassVal(impl)))],
                  Ret(NoVal))

register_scoped(inj, i, impl) ==
    IF ~ issubclass(impl, i)
    THEN Done(inj, Raise("ImplementationInterfaceMismatchError", Name(i), Name(impl), << >>))
    ELSE LET r == _register_interface(inj, i)
         IN  IF r.out.kind # "ok" THEN r
             ELSE Done([r.inj EXCEPT !.scoped_services =
                            Append(r.inj.scoped_services, Binding(i, ClassVal(impl)))],
                       Ret(NoVal))

\* a registration that appends to the singleton table before it asks the
\* index
register_singleton_append_first(inj, i, singleton) ==
    IF ~ isinstance(singleton, i)
    THEN Done(inj, Raise("ImplementationInterfaceMismatchError", Name(i),
                         IF IsType(singleton) THEN "type" ELSE Name(singleton.cls), << >>))
    ELSE LET r == _register_interface(
                      [inj EXCEPT !.singleton_services =
                           Append(inj.singleton_services, Binding(i, singleton))], i)
         IN  r

register_singleton(inj, i, singleton) ==
    IF ~ isinstance(singleton, i)
    THEN Done(inj, Raise("ImplementationInterfaceMismatchError", Name(i),
                         IF IsType(singleton) THEN "type" ELSE Name(singleton.cls), << >>))
    ELSE LET r == _register_interface(inj, i)
         IN  IF r.out.kind # "ok" THEN r
             ELSE Done([r.inj EXCEPT !.singleton_services =
                            Append(r.inj.singleton_services, Binding(i, singleton))],
                       Ret(NoVal))

(***************************************************************************)
(* Injector.resolve.  A call returns its outcome together with the heap    *)
(* after it: the identity the next object gets and the classes whose       *)
(* constructor ran, in order, and the resolve calls that were entered,     *)
(* each with the interface and the stack it was given.                     *)
(***************************************************************************)
Heap(n, b) == [next |-> n, built |-> b, calls |-> << >>]

\* one entry of resolve: its two arguments
Entered(i, stack) == [interface |-> i, stack |-> stack]

\* the heap once resolve(i, stack) has been entered
Enter(h, i, stack) == [h EXCEPT !.calls = Append(@, Entered(i, stack))]
Res(out, h) == [out |-> out, h |-> h]
KwRes(out, kw, h) == [out |-> out, kw |-> kw, h |-> h]

\* the optional stack argument: None or a list of types
NoStack == [none |-> TRUE, items |-> << >>]
Stack(s) == [none |-> FALSE, items |-> s]

\* instances kept per class and handed out again instead of a new object
Construct_shared(cls, kwargs, h) ==
    Res(Ret(Obj(cls, 1, kwargs)), [h EXCEPT !.built = Append(@, cls)])

\* implementation(**kwargs): a new object, which keeps its arguments
Construct(cls, kwargs, h) ==
    Res(Ret(Obj(cls, h.next, kwargs)),
        [h EXCEPT !.next = @ + 1, !.built = Append(@, cls)])

\* the interface is put in front of the list instead of at its end
Extend_prepend(stack, i) ==
    IF stack.none THEN Stack(<<i>>) ELSE Stack(<<i>> \o stack.items)

\* stack + [interface] if stack is not None else [interface]
Extend(stack, i) ==
    IF stack.none THEN Stack(<<i>>) ELSE Stack(Append(stack.items, i))

\* stack is not None and interface in stack
OnStack(stack, i) == ~ stack.none /\ i \in Range(stack.items)

\* [x.__name__ for x in stack]
Names(s) == [k \in 1..Len(s) |-> Name(s[k])]

RECURSIVE resolve(_, _, _, _)
RECURSIVE resolve_kwargs(_, _, _, _, _, _)

\* a loop that, when a parameter fails, resolves the parameters after it
\* before it raises the error
resolve_kwargs_goes_on(inj, annotations, k, stack, kwargs, h) ==
    IF k > Len(annotations) THEN KwRes(Ret(NoVal), kwargs, h)
    ELSE IF annotations[k].p = "return"
    THEN resolve_kwargs(inj, annotations, k + 1, stack, kwargs, h)
    ELSE LET i == interface(inj, annotations[k].a)
         IN  IF i.kind # "ok" THEN KwRes(i, kwargs, h)
             ELSE LET r == resolve(inj, i.val.cls, stack, h)
                  IN  IF r.out.kind # "ok"
                      THEN KwRes(r.out, kwargs,
                                 resolve_kwargs(inj, annotations, k + 1, stack,
                                                kwargs, r.h).h)
                      ELSE resolve_kwargs(inj, annotations, k + 1, stack,
                                          Append(kwargs, Arg(annotations[k].p, r.out.val)),
                                          r.h)

\* the loop over fullargspec.annotations.items(), from position k on
resolve_kwargs(inj, annotations, k, stack, kwargs, h) ==
    IF k > Len(annotations) THEN KwRes(Ret(NoVal), kwargs, h)
    ELSE IF annotations[k].p = "return"
    THEN resolve_kwargs(inj, annotations, k + 1, stack, kwargs, h)
    ELSE LET i == interface(inj, annotations[k].a)
         IN  IF i.kind # "ok" THEN KwRes(i, kwargs, h)
             ELSE LET r == resolve(inj, i.val.cls, stack, h)
                  IN  IF r.out.kind # "ok" THEN KwRes(r.out, kwargs, r.h)
                      ELSE resolve_kwargs(inj, annotations, k + 1, stack,
                                          Append(kwargs, Arg(annotations[k].p, r.out.val)),
                                          r.h)

\* a resolve that reports a failed dependency under the name it was asked for
resolve_names_request(inj, i, stack, h0) ==
    LET impl == implementation(inj, i)
        h == Enter(h0, i, stack)
    IN  IF impl.kind # "ok" THEN Res(impl, h)
        ELSE IF ~ IsType(impl.val) THEN Res(impl, h)
        ELSE IF OnStack(stack, i)
        THEN Res(Raise("CyclicDependencyError", Name(i), "", Names(stack.items)), h)
        ELSE LET a == resolve_kwargs(inj, Annotations(impl.val.cls), 1,
                                     Extend(stack, i), << >>, h)
             IN  IF a.out.kind = "UnimplementedError"
                 THEN Res(Raise("UnimplementedError", Name(i), "", << >>), a.h)
                 ELSE IF a.out.kind # "ok" THEN Res(a.out, a.h)
                 ELSE Construct(impl.val.cls, a.kw, a.h)

resolve(inj, i, stack, h0) ==
    LET impl == implementation(inj, i)
        h == Enter(h0, i, stack)
    IN  IF impl.kind # "ok" THEN Res(impl, h)
        ELSE IF ~ IsType(impl.val) THEN Res(impl, h)
        ELSE IF OnStack(stack, i)
        THEN Res(Raise("CyclicDependencyError", Name(i), "", Names(stack.items)), h)
        ELSE LET a == resolve_kwargs(inj, Annotations(impl.val.cls), 1,
                                     Extend(stack, i), << >>, h)
             IN  IF a.out.kind # "ok" THEN Res(a.out, a.h)
                 ELSE Construct(impl.val.cls, a.kw, a.h)

\* the one injector of the state
Self == Injector(interfaces, scoped_services, singleton_services)

(***************************************************************************)
(* Injector.resolve_callable: the keyword arguments are resolved, each     *)
(* with the default stack, and closed over by the lambda it returns.       *)
(***************************************************************************)
\* a resolve_callable that returns a closure over the arguments it got so
\* far when a parameter fails
resolve_callable_lenient(inj, fn, h) ==
    IF ~ callable(fn) THEN KwRes(Raise("ValueError", "", "", << >>), << >>, h)
    ELSE LET r == resolve_kwargs(inj, FnAnnotations(fn), 1, NoStack, << >>, h)
         IN  KwRes(Ret(NoVal), r.kw, r.h)

resolve_callable(inj, fn, h) ==
    IF ~ callable(fn) THEN KwRes(Raise("ValueError", "", "", << >>), << >>, h)
    ELSE resolve_kwargs(inj, FnAnnotations(fn), 1, NoStack, << >>, h)

\* a closure that resolves the parameters of fn again on every invocation
Lambda_resolves_again(w, h) ==
    resolve_kwargs(Self, FnAnnotations(w.fn), 1, NoStack, << >>, h)

\* lambda: fn(**kwargs) : one invocation, with the keyword arguments it
\* passes to fn
Lambda(w, h) == KwRes(Ret(NoVal), w.kwargs, h)

(***************************************************************************)
(* The state machine.                                                      *)
(***************************************************************************)
Call(op, i, arg, stack, fn, out, built, kwargs) ==
    [op |-> op, interface |-> i, arg |-> arg, stack |-> stack, fn |-> fn,
     out |-> out, built |-> built, kwargs |-> kwargs, calls |-> << >>]

\* the call, with the resolve calls that were entered during it
During(c, h) == [c EXCEPT !.calls = h.calls]

NoClosure == [set |-> FALSE, fn |-> "", kwargs |-> << >>]

\* Injector.__init__
Init ==
    /\ interfaces = << >>
    /\ scoped_services = << >>
    /\ singleton_services = << >>
    /\ heap = 1
    /\ last = Call("init", "", NoVal, NoStack, "", Ret(NoVal), << >>, << >>)
    /\ wrapped = NoClosure

Bindings == Len(scoped_services) + Len(singleton_services)

\* the caller's calls: a conforming implementation, or one of another interface
ScopedInputs ==
    {c \in Interfaces \X ImplClasses :
        \/ issubclass(c[2], c[1])
        \/ c[2] = (IF c[1] = "B" THEN "AImpl" ELSE "BImpl")}

SingletonInputs ==
    {c \in Interfaces \X SingletonValues :
        \/ isinstance(c[2], c[1])
        \/ c[2] = (IF c[1] = "D" THEN PreB ELSE PreD)}

\* the stack argument of the caller's resolve calls: left out, empty, or
\* already holding the requested interface
StackInputs(i) == {NoStack, Stack(<< >>), Stack(<<i>>)}

\* a setup routine that wires its interfaces one after the other, in the
\* order of this list
WiringOrder == <<"A", "B", "C", "D", "type">>

Position(n) == CHOOSE k \in 1..Len(WiringOrder) : WiringOrder[k] = n

InOrder(i) == \A n \in DOMAIN interfaces : Position(n) < Position(Name(i))

Registered(r) ==
    /\ r.out.kind = "ok" => Bindings < MaxBindings
    /\ interfaces' = r.inj.interfaces
    /\ scoped_services' = r.inj.scoped_services
    /\ singleton_services' = r.inj.singleton_services

ScopedCall(i, impl) ==
    LET r == register_scoped(Self, i, impl)
    IN  /\ Registered(r)
        /\ last' = Call("register_scoped", i, ClassVal(impl), NoStack, "",
                        r.out, << >>, << >>)
        /\ UNCHANGED <<heap, wrapped>>

SingletonCall(i, v) ==
    LET r == register_singleton(Self, i, v)
    IN  /\ Registered(r)
        /\ last' = Call("register_singleton", i, v, NoStack, "",
                        r.out, << >>, << >>)
        /\ UNCHANGED <<heap, wrapped>>

\* register_scoped and register_singleton, called in any order
RegisterScoped ==
    \E c \in ScopedInputs : ScopedCall(c[1], c[2])

RegisterSingleton ==
    \E c \in SingletonInputs : SingletonCall(c[1], c[2])

\* the same calls made by the setup routine: those that succeed come in
\* wiring order
WireScoped ==
    \E c \in ScopedInputs :
        /\ register_scoped(Self, c[1], c[2]).out.kind = "ok" => InOrder(c[1])
        /\ ScopedCall(c[1], c[2])

WireSingleton ==
    \E c \in SingletonInputs :
        /\ register_singleton(Self, c[1], c[2]).out.kind = "ok" => InOrder(c[1])
        /\ SingletonCall(c[1], c[2])

\* a resolve that keeps what it built, as the singleton of the interface
Resolve_keeps_instance ==
    /\ heap <= MaxHeap
    /\ \E i \in Interfaces : \E stack \in StackInputs(i) :
        LET r == resolve(Self, i, stack, Heap(heap, << >>))
        IN  /\ heap' = r.h.next
            /\ last' = During(Call("resolve", i, NoVal, stack, "", r.out,
                                    r.h.built, << >>), r.h)
            /\ singleton_services' =
                   IF r.out.kind = "ok" /\ r.h.built # << >>
                   THEN Append(singleton_services, Binding(i, r.out.val))
                   ELSE singleton_services
            /\ UNCHANGED <<interfaces, scoped_services, wrapped>>

Resolve ==
    /\ heap <= MaxHeap
    /\ \E i \in Interfaces : \E stack \in StackInputs(i) :
        LET r == resolve(Self, i, stack, Heap(heap, << >>))
        IN  /\ heap' = r.h.next
            /\ last' = During(Call("resolve", i, NoVal, stack, "", r.out,
                                    r.h.built, << >>), r.h)
            /\ UNCHANGED <<interfaces, scoped_services, singleton_services, wrapped>>

\* resolve_callable; the caller keeps the closure it returns
ResolveCallable ==
    /\ ~ wrapped.set
    /\ heap <= MaxHeap
    /\ \E fn \in Functions \cup {"config"} :
        LET r == resolve_callable(Self, fn, Heap(heap, << >>))
        IN  /\ heap' = r.h.next
            /\ last' = During(Call("resolve_callable", "", NoVal, NoStack, fn,
                                    r.out, r.h.built, r.kw), r.h)
            /\ wrapped' = IF r.out.kind = "ok"
                          THEN [set |-> TRUE, fn |-> fn, kwargs |-> r.kw]
                          ELSE wrapped
            /\ UNCHANGED <<interfaces, scoped_services, singleton_services>>

\* the caller invokes the closure it holds
Invoke ==
    /\ wrapped.set
    /\ LET r == Lambda(wrapped, Heap(heap, << >>))
       IN  /\ heap' = r.h.next
           /\ last' = During(Call("invoke", "", NoVal, NoStack, wrapped.fn,
                                   r.out, r.h.built, r.kw), r.h)
    /\ UNCHANGED <<interfaces, scoped_services, singleton_services, wrapped>>

\* wiring, then resolving, in any interleaving
Next ==
    \/ WireScoped
    \/ WireSingleton
    \/ Resolve

Spec == Init /\ [][Next]_vars

\* registrations alone, in every order
NextRegistry ==
    \/ RegisterScoped
    \/ RegisterSingleton

SpecRegistry == Init /\ [][NextRegistry]_vars

\* wiring, one resolve_callable, and invocations of its closure
NextCallable ==
    \/ WireScoped
    \/ WireSingleton
    \/ ResolveCallable
    \/ Invoke

SpecCallable == Init /\ [][NextCallable]_vars

\* the calls of a setup routine that makes no mistake: every registration
\* conforms and comes in wiring order
SetUpScoped ==
    \E c \in ScopedInputs :
        /\ issubclass(c[2], c[1])
        /\ InOrder(c[1])
        /\ ScopedCall(c[1], c[2])

SetUpSingleton ==
    \E c \in SingletonInputs :
        /\ isinstance(c[2], c[1])
        /\ InOrder(c[1])
        /\ SingletonCall(c[1], c[2])

\* such a setup, resolve and resolve_callable, in any interleaving
NextResolution ==
    \/ SetUpScoped
    \/ SetUpSingleton
    \/ Resolve
    \/ ResolveCallable

SpecResolution == Init /\ [][NextResolution]_vars

(***************************************************************************)
(* What the claims speak of.                                               *)
(***************************************************************************)
ScopedBound(i) == Find(scoped_services, i) # 0
SingletonBound(i) == Find(singleton_services, i) # 0
IsBound(i) == ScopedBound(i) \/ SingletonBound(i)

RegisterOps == {"register_scoped", "register_singleton"}

\* whether the argument of a register call satisfies the interface
Conforms(c) ==
    IF c.op = "register_scoped" THEN issubclass(c.arg.cls, c.interface)
    ELSE isinstance(c.arg, c.interface)

RegistryUnchanged ==
    UNCHANGED <<interfaces, scoped_services, singleton_services>>

(***************************************************************************)
(* C1, as stated: once a register call for I has succeeded, every later    *)
(* register_scoped or register_singleton call for I fails with             *)
(* ImplementedError.                                                       *)
(***************************************************************************)
C1_EveryLaterCallIsAlreadyRegistered ==
    [][(last'.op \in RegisterOps /\ IsBound(last'.interface))
          => last'.out.kind = "ImplementedError"]_vars

(***************************************************************************)
(* C1, amended: once a register call for I has succeeded, every later      *)
(* register call for I fails and records nothing: with ImplementedError    *)
(* when its implementation or instance satisfies I, with                   *)
(* ImplementationInterfaceMismatchError when it does not.                  *)
(***************************************************************************)
C1_LaterCallFails ==
    [][(last'.op \in RegisterOps /\ IsBound(last'.interface))
          => /\ last'.out.kind = IF Conforms(last') THEN "ImplementedError"
                                 ELSE "ImplementationInterfaceMismatchError"
             /\ last'.out.name = Name(last'.interface)
             /\ RegistryUnchanged]_vars

\* a singleton registration refused because the interface is scoped-bound
C1_Witness ==
    /\ last.op = "register_singleton"
    /\ last.out.kind = "ImplementedError"
    /\ ScopedBound(last.interface)

(***************************************************************************)
(* C2: register_scoped(I, impl) with impl not a subclass of I, and         *)
(* register_singleton(I, inst) with inst not an instance of I, fail with   *)
(* ImplementationInterfaceMismatchError in every registry state and record *)
(* nothing, neither in the index nor in a table.                           *)
(***************************************************************************)
C2_MismatchAlwaysRefused ==
    [][(last'.op \in RegisterOps /\ ~ Conforms(last'))
          => /\ last'.out.kind = "ImplementationInterfaceMismatchError"
             /\ RegistryUnchanged]_vars

\* a mismatching scoped registration refused on a registry that holds bindings
C2_Witness ==
    /\ last.op = "register_scoped"
    /\ ~ Conforms(last)
    /\ last.out.kind = "ImplementationInterfaceMismatchError"
    /\ Name(last.interface) \notin DOMAIN interfaces
    /\ Bindings >= 2

(***************************************************************************)
(* C3: resolve(I) fails with UnimplementedError naming I if and only if    *)
(* neither the scoped table nor the singleton table holds a binding for I  *)
(* (resolve leaves the tables as they were at the time of the call).       *)
(***************************************************************************)
C3_UnresolvedIffUnbound ==
    last.op = "resolve"
        => ((last.out.kind = "UnimplementedError" /\ last.out.name = Name(last.interface))
               <=> ~ IsBound(last.interface))

\* an unbound interface requested from a registry that holds bindings
C3_Witness ==
    /\ last.op = "resolve"
    /\ last.out.kind = "UnimplementedError"
    /\ last.out.name = Name(last.interface)
    /\ ~ IsBound(last.interface)
    /\ Bindings >= 2

\* the other side: a bound interface whose resolution fails on another name
C3_WitnessBound ==
    /\ last.op = "resolve"
    /\ last.out.kind = "UnimplementedError"
    /\ IsBound(last.interface)


(***************************************************************************)
(* The dependency graph over interface names.  The scoped graph has an     *)
(* edge from n to every name the constructor of n's scoped implementation  *)
(* declares; the walked graph has these edges and, for a name whose        *)
(* singleton is a class object, the names its constructor declares.        *)
(***************************************************************************)
\* the names a class's constructor declares, "return" left out
Declared(c) ==
    {IF Annotations(c)[k].a.kind = "type" THEN Name(Annotations(c)[k].a.v)
     ELSE Annotations(c)[k].a.v :
        k \in {j \in 1..Len(Annotations(c)) : Annotations(c)[j].p # "return"}}

Deps(n, walked) ==
    IF n \notin DOMAIN interfaces THEN {}
    ELSE LET v == implementation(Self, interfaces[n]).val
         IN  IF IsType(v) /\ (walked \/ ScopedBound(interfaces[n]))
             THEN Declared(v.cls) ELSE {}

RECURSIVE Closure(_, _)
Closure(S, walked) ==
    LET T == S \cup UNION {Deps(m, walked) : m \in S}
    IN  IF T = S THEN S ELSE Closure(T, walked)

Reach(n, walked) == Closure({n}, walked)

Missing(n, walked) == {m \in Reach(n, walked) : m \notin DOMAIN interfaces}

HasCycle(n, walked) ==
    \E m \in Reach(n, walked) : \E k \in Deps(m, walked) : m \in Reach(k, walked)

DefaultPath(c) == c.stack.items = << >>

\* resolve(A) with the default path, for a scoped-bound A
ScopedRequest ==
    /\ last.op = "resolve"
    /\ DefaultPath(last)
    /\ ScopedBound(last.interface)

Root == Name(last.interface)

(***************************************************************************)
(* C4, as stated: when resolve(A) is called for a scoped-bound A and some  *)
(* interface reached through constructor parameters has no binding,        *)
(* resolve(A) fails with UnimplementedError naming a missing interface.    *)
(***************************************************************************)
C4_FailsNamingTheMissing ==
    (ScopedRequest /\ Missing(Root, FALSE) # {})
        => /\ last.out.kind = "UnimplementedError"
           /\ last.out.name \in Missing(Root, FALSE)

(***************************************************************************)
(* C4, amended: in that case resolve(A), called with the default path,     *)
(* returns no instance.  It fails with UnimplementedError naming a missing *)
(* interface that the walk reaches, never the root request A, or, when a   *)
(* parameter visited earlier in depth-first order closes a cycle, with     *)
(* CyclicDependencyError; without a cycle it is always UnimplementedError. *)
(***************************************************************************)
C4_MissingDependencyFails ==
    (ScopedRequest /\ Missing(Root, FALSE) # {})
        => /\ last.out.kind \in {"UnimplementedError", "CyclicDependencyError"}
           /\ last.out.kind = "UnimplementedError"
                 => /\ last.out.name \in Missing(Root, TRUE)
                    /\ last.out.name # Root
           /\ ~ HasCycle(Root, TRUE) => last.out.kind = "UnimplementedError"

\* the missing interface is not a parameter of A's own implementation
C4_Witness ==
    /\ ScopedRequest
    /\ last.out.kind = "UnimplementedError"
    /\ last.out.name \in Missing(Root, FALSE)
    /\ last.out.name \notin Deps(Root, FALSE)

(***************************************************************************)
(* The chain a CyclicDependencyError reports: it starts at the request,    *)
(* every next name is a constructor parameter of the one before, no name   *)
(* occurs twice, and the revisited name is on it and is a parameter of its *)
(* last name.                                                              *)
(***************************************************************************)
ChainInOrder(out, walked) ==
    LET ch == out.chain
    IN  /\ Len(ch) >= 1
        /\ ch[1] = Root
        /\ \A k \in 1..(Len(ch) - 1) : ch[k + 1] \in Deps(ch[k], walked)
        /\ \A j, k \in 1..Len(ch) : ch[j] = ch[k] => j = k
        /\ out.name \in Range(ch)
        /\ out.name \in Deps(ch[Len(ch)], walked)

RECURSIVE Objs(_)
\* the instances of an object graph: the object and those its fields hold
Objs(v) ==
    IF v.kind # "obj" THEN {}
    ELSE {v} \cup UNION {Objs(v.kw[k].v) : k \in 1..Len(v.kw)}

Ids(v) == {o.id : o \in Objs(v)}

\* the instances registered as singletons, with what they hold
SingletonParts ==
    UNION {Objs(singleton_services[k].v) : k \in 1..Len(singleton_services)}

ScopedImpl(i) == scoped_services[Find(scoped_services, i)].v.cls
SingletonOf(i) == singleton_services[Find(singleton_services, i)].v

\* how often the constructor of class c ran during the last call
Constructed(c) == Cardinality({k \in 1..Len(last.built) : last.built[k] = c})

(***************************************************************************)
(* C6: if A, B, C, D are scoped-bound, A depends on B and C, B and C each  *)
(* depend on D and D on nothing, resolve(A) succeeds, the constructor of   *)
(* D's implementation runs exactly twice, and the D of A's B and the D of  *)
(* A's C are two distinct instances of it.                                 *)
(***************************************************************************)
C6_DiamondTolerance ==
    \A b, c, d \in DOMAIN interfaces :
        (/\ ScopedRequest
         /\ Cardinality({Root, b, c, d}) = 4
         /\ \A n \in {b, c, d} : ScopedBound(interfaces[n])
         /\ Deps(Root, FALSE) = {b, c}
         /\ Deps(b, FALSE) = {d}
         /\ Deps(c, FALSE) = {d}
         /\ Deps(d, FALSE) = {})
        => /\ last.out.kind = "ok"
           /\ Constructed(ScopedImpl(interfaces[d])) = 2
           /\ Len(last.out.val.kw) = 2
           /\ \A k \in 1..2 :
                 /\ Len(last.out.val.kw[k].v.kw) = 1
                 /\ last.out.val.kw[k].v.kw[1].v.kind = "obj"
                 /\ last.out.val.kw[k].v.kw[1].v.cls = ScopedImpl(interfaces[d])
           /\ last.out.val.kw[1].v.kw[1].v.id # last.out.val.kw[2].v.kw[1].v.id

\* the diamond has been resolved
C6_Witness ==
    /\ ScopedRequest
    /\ last.out.kind = "ok"
    /\ Deps(Root, FALSE) = {"B", "C"}
    /\ Deps("B", FALSE) = {"D"} /\ ScopedBound("B")
    /\ Deps("C", FALSE) = {"D"} /\ ScopedBound("C")
    /\ Deps("D", FALSE) = {} /\ ScopedBound("D")
    /\ Constructed("DImpl") = 2

(***************************************************************************)
(* C7: resolve(S) of a singleton-bound S returns exactly the registered    *)
(* instance and runs no constructor, whatever instance was registered.     *)
(***************************************************************************)
C7_SingletonReturnedAsIs ==
    (last.op = "resolve" /\ SingletonBound(last.interface))
        => /\ last.out.kind = "ok"
           /\ last.out.val = SingletonOf(last.interface)
           /\ last.built = << >>

(***************************************************************************)
(* C8: when resolve(I) of a scoped-bound I succeeds twice in a row, the    *)
(* second call returns another instance than the first, every instance of  *)
(* its graph that is not a registered singleton was constructed during the *)
(* second call, by the same constructors as in the first, and the two      *)
(* graphs share registered singletons only.                                *)
(***************************************************************************)
C8_ScopedFreshness ==
    [][(/\ last.op = "resolve" /\ last.out.kind = "ok"
        /\ last'.op = "resolve" /\ last'.out.kind = "ok"
        /\ last'.interface = last.interface
        /\ ScopedBound(last.interface))
          => /\ last'.out.val.id # last.out.val.id
             /\ \A o \in Objs(last'.out.val) :
                    o \in SingletonParts \/ (o.id >= heap /\ o.id < heap')
             /\ Ids(last'.out.val) \cap Ids(last.out.val)
                    \subseteq {o.id : o \in SingletonParts}
             /\ last'.built = last.built
             /\ heap' = heap + Len(last.built)]_vars

\* a second resolve in a row of a graph of two built objects and a singleton
C8_Witness ==
    /\ last.op = "resolve"
    /\ last.out.kind = "ok"
    /\ ScopedBound(last.interface)
    /\ Len(last.built) >= 2
    /\ heap = 1 + 2 * Len(last.built)
    /\ last.out.val.id = heap - 1
    /\ Objs(last.out.val) \cap SingletonParts # {}

(***************************************************************************)
(* C9: resolve_callable(fn) resolves every declared parameter of fn once,  *)
(* when it is called; every invocation of the closure it returns runs no   *)
(* constructor and passes fn the very arguments resolved then.             *)
(***************************************************************************)
C9_CallableResolvedOnce ==
    [][/\ (last'.op = "resolve_callable" /\ last'.out.kind = "ok")
            => /\ wrapped'.set /\ wrapped'.kwargs = last'.kwargs
               /\ [k \in 1..Len(last'.kwargs) |-> last'.kwargs[k].p]
                     = [k \in 1..Len(SelectSeq(FnAnnotations(last'.fn), LAMBDA x : x.p # "return"))
                            |-> SelectSeq(FnAnnotations(last'.fn), LAMBDA x : x.p # "return")[k].p]
       /\ last'.op = "invoke"
            => /\ last'.out.kind = "ok"
               /\ last'.kwargs = wrapped.kwargs
               /\ last'.built = << >>
               /\ heap' = heap
       /\ wrapped.set => wrapped' = wrapped]_vars

\* an invocation of a closure that holds an object built by resolve_callable
C9_Witness ==
    /\ last.op = "invoke"
    /\ wrapped.fn = "outer"
    /\ Len(last.kwargs) = 2
    /\ last.kwargs[1].v.id >= 1
    /\ last.kwargs[2].v \in SingletonParts

(***************************************************************************)
(* C10: when resolve(I) succeeds for a scoped binding I -> Impl, the       *)
(* result is an instance of Impl whose arguments are, parameter by         *)
(* parameter, the resolution of the declared interface J: the registered   *)
(* instance itself when J is singleton-bound, an instance of J's           *)
(* implementation built during the call when J is scoped-bound.            *)
(***************************************************************************)
NonReturn(annotations) == SelectSeq(annotations, LAMBDA x : x.p # "return")

DeclaredName(a) == IF a.kind = "type" THEN Name(a.v) ELSE a.v

C10_WiredAsDeclared ==
    (last.op = "resolve" /\ last.out.kind = "ok" /\ ScopedBound(last.interface))
        => LET v == last.out.val
               ps == NonReturn(Annotations(ScopedImpl(last.interface)))
           IN  /\ v.kind = "obj"
               /\ v.cls = ScopedImpl(last.interface)
               /\ Len(v.kw) = Len(ps)
               /\ \A k \in 1..Len(ps) :
                     LET j == interfaces[DeclaredName(ps[k].a)]
                     IN  /\ v.kw[k].p = ps[k].p
                         /\ SingletonBound(j) => v.kw[k].v = SingletonOf(j)
                         /\ ScopedBound(j)
                               => /\ v.kw[k].v.kind = "obj"
                                  /\ v.kw[k].v.cls = ScopedImpl(j)
                                  /\ v.kw[k].v.id >= heap - Len(last.built)
                                  /\ v.kw[k].v.id < heap

(***************************************************************************)
(* C11: after any sequence of register_scoped and register_singleton       *)
(* calls, successful or failing, every interface has at most one entry in  *)
(* the scoped and the singleton table taken together: none twice in one    *)
(* table, none in both.                                                    *)
(***************************************************************************)
\* the positions of a table whose key is i
Entries(table, i) == {k \in 1..Len(table) : table[k].k = i}

C11_SingleBinding ==
    \A i \in Interfaces :
        Cardinality(Entries(scoped_services, i))
            + Cardinality(Entries(singleton_services, i)) <= 1

\* a scoped registration was refused for an interface the singleton table
\* holds, on a registry with entries in both tables
C11_Witness ==
    /\ last.op = "register_scoped"
    /\ last.out.kind = "ImplementedError"
    /\ SingletonBound(last.interface)
    /\ Len(scoped_services) >= 1
    /\ Bindings >= 3

(***************************************************************************)
(* The nesting of resolve calls: a call entered with a stack of n          *)
(* interfaces is n + 1 calls deep when the request had the default path.   *)
(***************************************************************************)
Depth(e) == Len(e.stack.items) + 1

\* resolve(I) with the default path
DefaultRequest == last.op = "resolve" /\ DefaultPath(last)

(***************************************************************************)
(* C12: resolve(I) with the default path terminates, returning an instance *)
(* or failing with UnimplementedError or CyclicDependencyError, and no     *)
(* resolve call of it is nested deeper than the number of scoped bindings  *)
(* plus one, cycles in the dependency graph included.                      *)
(***************************************************************************)
C12_TerminatesWithinDepth ==
    DefaultRequest
        => /\ last.out.kind \in {"ok", "UnimplementedError", "CyclicDependencyError"}
           /\ Len(last.calls) >= 1
           /\ \A k \in 1..Len(last.calls) :
                 Depth(last.calls[k]) <= Len(scoped_services) + 1

(***************************************************************************)
(* C13: every resolve and every resolve_callable call, whether it returns  *)
(* or fails with UnimplementedError or CyclicDependencyError, leaves the   *)
(* name index, the scoped table and the singleton table as they were.      *)
(***************************************************************************)
ResolveOps == {"resolve", "resolve_callable"}

C13_ResolutionReadOnly ==
    [][last'.op \in ResolveOps => RegistryUnchanged]_vars

\* a resolve that failed on a cycle after a resolve_callable that built two
\* objects, on the same registry
C13_Witness ==
    /\ last.op = "resolve"
    /\ last.out.kind = "CyclicDependencyError"
    /\ wrapped.set
    /\ Len(wrapped.kwargs) = 2
    /\ wrapped.kwargs[1].v.id >= 1

(***************************************************************************)
(* The walk of one resolve call, read from the calls it entered.           *)
(***************************************************************************)
\* whether resolve(e.interface, e.stack) goes on to the constructor
\* parameters: the binding holds a class and the interface is not on the stack
Descends(e) ==
    LET impl == implementation(Self, e.interface)
    IN  impl.kind = "ok" /\ IsType(impl.val) /\ ~ OnStack(e.stack, e.interface)

\* the outcome of resolve(e.interface, e.stack), whatever the heap
Outcome(e) == resolve(Self, e.interface, e.stack, Heap(1, << >>)).out

\* the request of the last call, as an entry
Request == Entered(last.interface, last.stack)

\* the parameters of the requested implementation and the stack they get
Params == NonReturn(Annotations(implementation(Self, last.interface).val.cls))
Below == Extend(last.stack, last.interface)

\* the outcome of parameter k: of the lookup of its annotation, then of the
\* resolve of the interface found
ParamOutcome(k) ==
    LET i == interface(Self, Params[k].a)
    IN  IF i.kind # "ok" THEN i ELSE Outcome(Entered(i.val.cls, Below))

\* the first parameter, in declaration order, that fails (0: none)
FirstFailing ==
    IF \E k \in 1..Len(Params) : ParamOutcome(k).kind # "ok"
    THEN CHOOSE k \in 1..Len(Params) :
             /\ ParamOutcome(k).kind # "ok"
             /\ \A j \in 1..(k - 1) : ParamOutcome(j).kind = "ok"
    ELSE 0

\* the calls resolve made for the parameters themselves, in order
Children == SelectSeq(last.calls, LAMBDA e : e.stack = Below)

\* the parameters resolve is to make a call for: all of them, or those up to
\* the first failing one (without it, when its lookup fails)
Visited ==
    IF FirstFailing = 0 THEN Len(Params)
    ELSE IF interface(Self, Params[FirstFailing].a).kind # "ok"
    THEN FirstFailing - 1
    ELSE FirstFailing

\* every call after the first was made by an earlier call, for one of its
\* parameters, and all calls between the two are below that earlier call
DepthFirst ==
    \A j \in 2..Len(last.calls) :
        \E p \in 1..(j - 1) :
            /\ Descends(last.calls[p])
            /\ Extend(last.calls[p].stack, last.calls[p].interface) = last.calls[j].stack
            /\ \A q \in (p + 1)..(j - 1) :
                   Len(last.calls[q].stack.items) >= Len(last.calls[j].stack.items)

\* the calls that went to the parameters and failed, and those that returned
Open == {j \in 1..Len(last.calls) :
            Descends(last.calls[j]) /\ Outcome(last.calls[j]).kind # "ok"}
Completed == {j \in 1..Len(last.calls) :
                 Descends(last.calls[j]) /\ Outcome(last.calls[j]).kind = "ok"}

\* the open calls are one chain from the request down, and the constructors
\* that ran are those of the completed calls, one each
NothingBuiltOnChain ==
    /\ \A j \in Open :
          \/ j = 1
          \/ \E p \in Open :
                /\ p < j
                /\ Extend(last.calls[p].stack, last.calls[p].interface)
                      = last.calls[j].stack
    /\ \A j, k \in Open :
          Len(last.calls[j].stack.items) = Len(last.calls[k].stack.items) => j = k
    /\ Len(last.built) = Cardinality(Completed)
    /\ \A c \in ImplClasses :
          Constructed(c) = Cardinality({j \in Completed :
                               implementation(Self, last.calls[j].interface).val.cls = c})

(***************************************************************************)
(* C14: constructor parameters are resolved in declaration order, each     *)
(* subtree completely before the next parameter; when resolve fails, the   *)
(* error is that of the first failing parameter in this order, no          *)
(* parameter after it is resolved, and no implementation on the chain from *)
(* the failing point up to the request is instantiated.                    *)
(***************************************************************************)
C14_FirstFailure ==
    (last.op = "resolve" /\ Descends(Request))
        => /\ last.calls[1] = Request
           /\ DepthFirst
           /\ Len(Children) = Visited
           /\ \A k \in 1..Visited :
                 Children[k].interface = interface(Self, Params[k].a).val.cls
           /\ (last.out.kind = "ok") <=> (FirstFailing = 0)
           /\ FirstFailing # 0
                 => /\ last.out = ParamOutcome(FirstFailing)
                    /\ NothingBuiltOnChain

\* the first parameter's subtree was built, then the second parameter failed
\* on a cycle two calls below the request
C14_Witness ==
    /\ ScopedRequest
    /\ last.out.kind = "CyclicDependencyError"
    /\ Len(last.built) >= 2
    /\ FirstFailing = 2
    /\ Len(last.out.chain) >= 2

(***************************************************************************)
(* C15: singletons are resolution leaves.  Every resolve call entered for  *)
(* a singleton-bound S, as the request or for a constructor parameter,     *)
(* returns the registered instance whatever its path, a path that holds S  *)
(* included, and so raises no CyclicDependencyError.                       *)
(***************************************************************************)
C15_SingletonsAreLeaves ==
    last.op = "resolve"
        => \A k \in 1..Len(last.calls) :
               SingletonBound(last.calls[k].interface)
                   => /\ ~ Descends(last.calls[k])
                      /\ Outcome(last.calls[k])
                            = Ret(SingletonOf(last.calls[k].interface))

(***************************************************************************)
(* The walk of one resolve_callable call.                                  *)
(***************************************************************************)
FnParams == NonReturn(FnAnnotations(last.fn))

\* the outcome of parameter k of fn: of the lookup of its annotation, then
\* of the resolve of the interface found, with the default stack
FnParamOutcome(k) ==
    LET i == interface(Self, FnParams[k].a)
    IN  IF i.kind # "ok" THEN i ELSE Outcome(Entered(i.val.cls, NoStack))

\* the first parameter of fn, in declaration order, that fails (0: none)
FnFirstFailing ==
    IF \E k \in 1..Len(FnParams) : FnParamOutcome(k).kind # "ok"
    THEN CHOOSE k \in 1..Len(FnParams) :
             /\ FnParamOutcome(k).kind # "ok"
             /\ \A j \in 1..(k - 1) : FnParamOutcome(j).kind = "ok"
    ELSE 0

\* the calls resolve_callable made for the parameters of fn themselves
FnChildren == SelectSeq(last.calls, LAMBDA e : e.stack = NoStack)

\* a chain that starts at the interface of fn's parameter k and goes down
\* constructor parameters, no name twice, to the one that closed the cycle
ChainBelow(out, k) ==
    LET ch == out.chain
    IN  /\ Len(ch) >= 1
        /\ ch[1] = DeclaredName(FnParams[k].a)
        /\ \A j \in 1..(Len(ch) - 1) : ch[j + 1] \in Deps(ch[j], TRUE)
        /\ \A j, m \in 1..Len(ch) : ch[j] = ch[m] => j = m
        /\ out.name \in Range(ch)

(***************************************************************************)
(* C16: resolve_callable(fn) resolves each declared parameter of fn with   *)
(* the default, empty path, so that a CyclicDependencyError chain holds    *)
(* only interfaces resolved beneath that parameter; when a parameter fails *)
(* with UnimplementedError or CyclicDependencyError, resolve_callable      *)
(* fails with that error when it is called, no parameter after it is       *)
(* resolved, no closure is returned, and fn is invoked only through a      *)
(* closure that a successful resolve_callable returned.                    *)
(***************************************************************************)
C16_CallableEager ==
    /\ (last.op = "resolve_callable" /\ callable(last.fn))
          => /\ \A j \in 1..Len(last.calls) :
                    \/ last.calls[j].stack = NoStack
                    \/ \E p \in 1..(j - 1) :
                          Extend(last.calls[p].stack, last.calls[p].interface)
                              = last.calls[j].stack
             /\ Len(FnChildren) =
                    IF FnFirstFailing = 0 THEN Len(FnParams)
                    ELSE IF interface(Self, FnParams[FnFirstFailing].a).kind # "ok"
                    THEN FnFirstFailing - 1
                    ELSE FnFirstFailing
             /\ \A k \in 1..Len(FnChildren) :
                    FnChildren[k].interface = interface(Self, FnParams[k].a).val.cls
             /\ (last.out.kind = "ok") <=> (FnFirstFailing = 0)
             /\ FnFirstFailing # 0
                    => /\ last.out = FnParamOutcome(FnFirstFailing)
                       /\ last.out.kind \in {"UnimplementedError", "CyclicDependencyError"}
                       /\ ~ wrapped.set
             /\ last.out.kind = "CyclicDependencyError"
                    => ChainBelow(last.out, FnFirstFailing)
    /\ last.op = "invoke"
          => /\ wrapped.set
             /\ last.fn = wrapped.fn
             /\ last.calls = << >>

\* resolve_callable failed on a cycle through two implementations beneath
\* the parameter of fn
C16_Witness ==
    /\ last.op = "resolve_callable"
    /\ last.out.kind = "CyclicDependencyError"
    /\ Len(last.out.chain) >= 2
    /\ last.out.chain[1] = "A"
    /\ ~ wrapped.set

(***************************************************************************)
(* C17: a register_scoped or register_singleton call that fails, with      *)
(* ImplementationInterfaceMismatchError or ImplementedError, leaves the    *)
(* name index, the scoped table and the singleton table exactly as they    *)
(* were: every binding registered earlier is still the one looked up.      *)
(***************************************************************************)
C17_FailedRegistrationAtomic ==
    [][(last'.op \in RegisterOps /\ last'.out.kind # "ok")
          => /\ last'.out.kind \in {"ImplementationInterfaceMismatchError",
                                    "ImplementedError"}
             /\ interfaces' = interfaces
             /\ scoped_services' = scoped_services
             /\ singleton_services' = singleton_services]_vars

\* a registration refused for an interface that has no binding itself, but
\* the name of one that has, on a registry with bindings in both tables
C17_Witness ==
    /\ last.op \in RegisterOps
    /\ last.out.kind = "ImplementedError"
    /\ ~ IsBound(last.interface)
    /\ Len(scoped_services) >= 1
    /\ Len(singleton_services) >= 1

(***************************************************************************)
(* C18: when a register_scoped or register_singleton call violates both    *)
(* preconditions, the interface being registered already and the           *)
(* implementation or instance not satisfying it, the call fails with       *)
(* ImplementationInterfaceMismatchError, naming the implementation and the *)
(* interface: conformance is checked before the index.                     *)
(***************************************************************************)
\* implementation.__name__, singleton.__class__.__name__
ArgName(c) ==
    IF c.op = "register_singleton" /\ IsType(c.arg) THEN "type" ELSE Name(c.arg.cls)

C18_MismatchReportedFirst ==
    [][(/\ last'.op \in RegisterOps
        /\ Name(last'.interface) \in DOMAIN interfaces
        /\ ~ Conforms(last'))
          => /\ last'.out.kind = "ImplementationInterfaceMismatchError"
             /\ last'.out.name = Name(last'.interface)
             /\ last'.out.impl = ArgName(last')]_vars

\* an instance of another interface offered as the singleton of an interface
\* that is bound already
C18_Witness ==
    /\ last.op = "register_singleton"
    /\ IsBound(last.interface)
    /\ ~ Conforms(last)
    /\ last.out.kind = "ImplementationInterfaceMismatchError"
    /\ last.out.impl # "type"

(***************************************************************************)
(* C19: during a resolve(I) with the default path, the path given to every *)
(* resolve call holds no interface twice, holds scoped-bound interfaces    *)
(* only, and is the chain of interfaces from the request down to the       *)
(* parent of the interface being resolved, so that a subtree never sees    *)
(* the interfaces of a sibling subtree.                                    *)
(***************************************************************************)
C19_PathInvariant ==
    DefaultRequest
        => /\ DepthFirst
           /\ \A j \in 1..Len(last.calls) :
                 LET path == last.calls[j].stack.items
                 IN  /\ \A k, m \in 1..Len(path) : path[k] = path[m] => k = m
                     /\ \A k \in 1..Len(path) : ScopedBound(path[k])
                     /\ j > 1 => path[1] = last.interface

(***************************************************************************)
(* C20: after any sequence of registrations, for every interface I, two    *)
(* classes that share one __name__ included: interface(I) succeeds exactly *)
(* when implementation(I) succeeds, interface(I) returns I itself, and a   *)
(* registration of I is refused with ImplementedError exactly when         *)
(* resolve(I) does not fail with UnimplementedError naming I.              *)
(***************************************************************************)
\* resolve(I) fails with UnimplementedError naming I
Unresolved(i) ==
    resolve(Self, i, NoStack, Heap(heap, << >>)).out
        = Raise("UnimplementedError", Name(i), "", << >>)

IndexAgrees(i) ==
    /\ (interface(Self, Typ(i)).kind = "ok") <=> (implementation(Self, i).kind = "ok")
    /\ interface(Self, Typ(i)).kind = "ok" => interface(Self, Typ(i)).val = ClassVal(i)
    /\ (_register_interface(Self, i).out.kind = "ImplementedError") <=> ~ Unresolved(i)

C20_IndexAndTablesAgree == \A i \in Interfaces : IndexAgrees(i)

====
